---- MODULE Spec2Model ----
(***************************************************************************)
(* A model of the rule-execution engine of package validate                *)
(* (src/validation.go): the Validation session, its filtering phase, its   *)
(* error sink, the validator registry and the scene selector; and of the   *)
(* JSON input adapter jsonutil.Unmarshal (src/unnamed/part_000).           *)
(*                                                                         *)
(* Go strings that the code takes apart or concatenates (field names,      *)
(* error messages) are sequences of one-character strings, so that         *)
(* strings.Split, strings.Join and "+" are computed, not assumed.  Names   *)
(* that are only compared (validator names, scene names, values) are       *)
(* TLA+ strings.  A Go map is a function whose DOMAIN is the set of keys   *)
(* present.                                                                *)
(***************************************************************************)
EXTENDS Integers, Sequences, FiniteSets, TLC

VARIABLES
    sess,                  \* session id -> the fields of one *Validation
    globalValidators,      \* package-level validators:     name -> type
    globalValidatorMetas,  \* package-level validatorMetas: name -> *funcMeta
    last,                  \* history: the last call, its arguments and what it returned
    req                    \* the *http.Request the caller of jsonutil.Unmarshal holds

vars == <<sess, globalValidators, globalValidatorMetas, last, req>>

-----------------------------------------------------------------------------
(* Bounds of the model *)

MaxRules == 2      \* filter rules a session holds at most
MaxValRules == 1   \* validation rules a session holds at most
MaxErrs == 1       \* AddError/AddErrorf/WithError calls by the caller between two resets
MaxLen == 3        \* length of a field name in the scene selector's model
MaxSceneFields == 1 \* fields listed for a scene

-----------------------------------------------------------------------------
(* Strings and maps *)

EmptyMap == <<>>

Has(m, k) == k \in DOMAIN m

Put(m, k, x) == [y \in (DOMAIN m) \cup {k} |-> IF y = k THEN x ELSE m[y]]

\* the Go nil of an `any` value
Nil == "<nil>"

NilErr == [nil |-> TRUE, msg |-> <<>>]

Err(m) == [nil |-> FALSE, msg |-> m]

filterError == <<"_", "f", "i", "l", "t", "e", "r">>

validateError == <<"_", "v", "a", "l", "i", "d", "a", "t", "e">>

validatorTypeBuiltin == 1

validatorTypeCustom == 2

sourceStruct == "struct"

-----------------------------------------------------------------------------
(* strings.Split(s, "."), strings.Join(a, ".") and strings.TrimSuffix(s, ".*") *)

RECURSIVE SplitAcc(_, _, _)
SplitAcc(s, cur, acc) ==
    IF s = <<>> THEN Append(acc, cur)
    ELSE IF Head(s) = "." THEN SplitAcc(Tail(s), <<>>, Append(acc, cur))
    ELSE SplitAcc(Tail(s), Append(cur, Head(s)), acc)

Split(s) == SplitAcc(s, <<>>, <<>>)

RECURSIVE Join(_)
Join(a) ==
    IF a = <<>> THEN <<>>
    ELSE IF Len(a) = 1 THEN a[1]
    ELSE a[1] \o <<".">> \o Join(Tail(a))

TrimSuffix(s) ==
    IF Len(s) >= 2 /\ s[Len(s) - 1] = "." /\ s[Len(s)] = "*"
    THEN SubSeq(s, 1, Len(s) - 2)
    ELSE s

-----------------------------------------------------------------------------
(* The data source (DataFace).  A source is a record: its type, the values *)
(* it holds and, for a struct, the names of the struct's methods.  A nil   *)
(* DataFace has type "nil".  The empty string is the zero value.           *)

NilData == [type |-> "nil", vals |-> EmptyMap, methods |-> {}]

DataGet(d, key) ==
    IF Has(d.vals, key) THEN [val |-> d.vals[key], exist |-> TRUE]
    ELSE [val |-> Nil, exist |-> FALSE]

\* only a struct reports zero values; a map or a form always reports zero = false
DataTryGet(d, key) ==
    IF ~Has(d.vals, key) THEN [val |-> Nil, exist |-> FALSE, zero |-> FALSE]
    ELSE [val |-> d.vals[key], exist |-> TRUE,
          zero |-> (d.type = sourceStruct /\ d.vals[key] = "")]

\* a struct is written in place (an unknown field is an error); a map or a
\* form is left alone and the value handed back
DataSet(d, key, val) ==
    IF d.type = sourceStruct
    THEN IF Has(d.vals, key)
         THEN [d |-> [d EXCEPT !.vals = Put(@, key, val)], val |-> val, err |-> NilErr]
         ELSE [d |-> d, val |-> Nil, err |-> Err(<<"n", "o", "f">>)]
    ELSE [d |-> d, val |-> val, err |-> NilErr]

\* a function value: a function handed in by the caller, a library
\* function or a method of the source struct; NilFunc is the zero Value
Func(kind, name) == [kind |-> kind, name |-> name]

NilFunc == Func("nil", "")

\* StructData.FuncValue: the struct's method of that name
FuncValue(d, name) ==
    IF name \in d.methods THEN [fv |-> Func("method", name), ok |-> TRUE]
    ELSE [fv |-> NilFunc, ok |-> FALSE]

-----------------------------------------------------------------------------
(* The translator's label map and the error sink *)

\* Translator.FieldName: the field's label, or the field itself
FieldName(trans, field) == IF Has(trans, field) THEN trans[field] ELSE field

\* Translator.AddLabelMap: later labels override earlier ones
AddLabelMap(trans, m) ==
    [f \in (DOMAIN trans) \cup (DOMAIN m) |-> IF Has(m, f) THEN m[f] ELSE trans[f]]

\* Errors.Add: field -> validator -> message
ErrorsAdd(es, field, validator, msg) ==
    IF Has(es, field) THEN Put(es, field, Put(es[field], validator, msg))
    ELSE Put(es, field, Put(EmptyMap, validator, msg))

\* the (field, validator) pairs that hold a message
ErrorKeys(es) == UNION {{<<f, n>> : n \in DOMAIN es[f]} : f \in DOMAIN es}

-----------------------------------------------------------------------------
(* The session *)

newValidation(d) ==
    [data |-> d, safeData |-> EmptyMap, filteredData |-> EmptyMap,
     defValues |-> EmptyMap, Errors |-> EmptyMap, StopOnError |-> TRUE,
     hasError |-> FALSE, hasFiltered |-> FALSE, hasValidated |-> FALSE,
     rules |-> <<>>, filterRules |-> <<>>,
     validators |-> EmptyMap, validatorMetas |-> EmptyMap,
     scene |-> "", scenes |-> EmptyMap, sceneFields |-> {},
     trans |-> EmptyMap, addCalls |-> 0]

AtScene(v, name) == [v EXCEPT !.scene = name]

\* scene is the variadic argument: a sequence of at most one name
SetScene(v, sc) == IF Len(sc) > 0 THEN AtScene(v, sc[1]) ELSE v

NewValidation(d, sc) == SetScene(newValidation(d), sc)

NewEmpty(sc) == NewValidation(NilData, sc)

\* a ResetResult that keeps the errors and the fail flag
ResetResultKeepsErrors(v) ==
    [v EXCEPT !.hasFiltered = FALSE, !.hasValidated = FALSE,
              !.safeData = EmptyMap, !.filteredData = EmptyMap]

\* a ResetResult that drops the rules with the results
ResetResultAndRules(v) ==
    [v EXCEPT !.Errors = EmptyMap, !.hasError = FALSE, !.hasFiltered = FALSE,
              !.hasValidated = FALSE, !.safeData = EmptyMap,
              !.filteredData = EmptyMap, !.rules = <<>>, !.filterRules = <<>>]

ResetResult(v) ==
    [v EXCEPT !.Errors = EmptyMap, !.hasError = FALSE, !.hasFiltered = FALSE,
              !.hasValidated = FALSE, !.safeData = EmptyMap,
              !.filteredData = EmptyMap]

resetRules(v) == [v EXCEPT !.rules = <<>>, !.filterRules = <<>>]

Reset(v) == resetRules(ResetResult(v))

WithScenes(v, sc) == [v EXCEPT !.scenes = sc]

WithTranslates(v, m) == [v EXCEPT !.trans = AddLabelMap(@, m)]

\* an AddError that records the message and leaves the flag alone
AddErrorNoFlag(v, field, validator, msg) ==
    [v EXCEPT !.Errors = ErrorsAdd(@, FieldName(v.trans, field), validator, msg),
              !.addCalls = @ + 1]

\* addCalls is a history field: the AddError calls on the session since the
\* caller last reset it
AddError(v, field, validator, msg) ==
    [v EXCEPT !.hasError = TRUE,
              !.Errors = ErrorsAdd(@, FieldName(v.trans, field), validator, msg),
              !.addCalls = @ + 1]

\* fmt.Sprintf for the verb %s: each %s takes the next argument
RECURSIVE Sprintf(_, _)
Sprintf(format, args) ==
    IF format = <<>> THEN <<>>
    ELSE IF Len(format) >= 2 /\ format[1] = "%" /\ format[2] = "s" /\ args # <<>>
    THEN Head(args) \o Sprintf(SubSeq(format, 3, Len(format)), Tail(args))
    ELSE <<Head(format)>> \o Sprintf(Tail(format), args)

AddErrorf(v, field, msgFormat, args) ==
    AddError(v, field, validateError, Sprintf(msgFormat, args))

WithError(v, err) ==
    IF ~err.nil THEN AddError(v, validateError, validateError, err.msg) ELSE v

IsOK(v) == ~v.hasError

IsFail(v) == v.hasError

IsSuccess(v) == ~v.hasError

shouldStop(v) == v.hasError /\ v.StopOnError

-----------------------------------------------------------------------------
(* Getters *)

ErrEmptyData == Err(<<"n", "o", " ", "d", "a", "t", "a">>)

Raw(v, key) ==
    IF v.data = NilData THEN [val |-> Nil, exist |-> FALSE]
    ELSE DataGet(v.data, key)

\* a tryGet that does not look at v.data before it reads the session's maps
tryGetNoNilCheck(v, key) ==
    IF Has(v.filteredData, key)
    THEN [val |-> v.filteredData[key], exist |-> TRUE, zero |-> FALSE]
    ELSE IF Has(v.safeData, key)
    THEN [val |-> v.safeData[key], exist |-> TRUE, zero |-> FALSE]
    ELSE IF v.data = NilData THEN [val |-> Nil, exist |-> FALSE, zero |-> FALSE]
    ELSE DataTryGet(v.data, key)

\* a tryGet that asks safeData before filteredData
tryGetSafeFirst(v, key) ==
    IF v.data = NilData THEN [val |-> Nil, exist |-> FALSE, zero |-> FALSE]
    ELSE IF Has(v.safeData, key)
    THEN [val |-> v.safeData[key], exist |-> TRUE, zero |-> FALSE]
    ELSE IF Has(v.filteredData, key)
    THEN [val |-> v.filteredData[key], exist |-> TRUE, zero |-> FALSE]
    ELSE DataTryGet(v.data, key)

tryGet(v, key) ==
    IF v.data = NilData THEN [val |-> Nil, exist |-> FALSE, zero |-> FALSE]
    ELSE IF Has(v.filteredData, key)
    THEN [val |-> v.filteredData[key], exist |-> TRUE, zero |-> FALSE]
    ELSE IF Has(v.safeData, key)
    THEN [val |-> v.safeData[key], exist |-> TRUE, zero |-> FALSE]
    ELSE DataTryGet(v.data, key)

Get(v, key) == [val |-> tryGet(v, key).val, exist |-> tryGet(v, key).exist]

GetWithDefault(v, key) ==
    LET t == tryGet(v, key)
    IN  IF t.exist /\ ~t.zero
        THEN [val |-> t.val, exist |-> t.exist, isDefault |-> FALSE]
        ELSE IF Has(v.defValues, key)
        THEN [val |-> v.defValues[key], exist |-> t.exist, isDefault |-> TRUE]
        ELSE [val |-> t.val, exist |-> t.exist, isDefault |-> FALSE]

Safe(v, key) ==
    IF v.data = NilData THEN [val |-> Nil, ok |-> FALSE]
    ELSE IF Has(v.safeData, key) THEN [val |-> v.safeData[key], ok |-> TRUE]
    ELSE [val |-> Nil, ok |-> FALSE]

Set(v, field, val) ==
    IF v.data = NilData THEN [v |-> v, err |-> ErrEmptyData]
    ELSE LET r == DataSet(v.data, field, val)
         IN  [v |-> [v EXCEPT !.data = r.d], err |-> r.err]

SetDefValue(v, field, val) == [v EXCEPT !.defValues = Put(@, field, val)]

\* an updateValue that hands the field name to Set as it got it
updateValueNoTrim(v, field, val) ==
    IF v.data = NilData THEN [v |-> v, val |-> Nil, err |-> NilErr, panic |-> TRUE]
    ELSE IF v.data.type = sourceStruct
    THEN LET r == DataSet(v.data, field, val)
         IN  [v |-> [v EXCEPT !.data = r.d], val |-> r.val, err |-> r.err,
              panic |-> FALSE]
    ELSE [v |-> v, val |-> val, err |-> NilErr, panic |-> FALSE]

\* a call of a method on the nil DataFace panics
updateValue(v, field, val) ==
    IF v.data = NilData THEN [v |-> v, val |-> Nil, err |-> NilErr, panic |-> TRUE]
    ELSE IF v.data.type = sourceStruct
    THEN LET r == DataSet(v.data, TrimSuffix(field), val)
         IN  [v |-> [v EXCEPT !.data = r.d], val |-> r.val, err |-> r.err,
              panic |-> FALSE]
    ELSE [v |-> v, val |-> val, err |-> NilErr, panic |-> FALSE]

-----------------------------------------------------------------------------
(* The filtering phase *)

\* the filter functions a rule may name: "trim" never fails, "int" fails on a
\* value that is not a number
applyFilters(val, filter) ==
    CASE filter = "trim" ->
            [val |-> IF val = " 1" THEN "1" ELSE val, err |-> NilErr]
      [] filter = "int" ->
            IF val = "1" THEN [val |-> val, err |-> NilErr]
            ELSE [val |-> Nil, err |-> Err(<<"N", "a", "N">>)]

\* FilterRule.Apply from the rule's i-th field on: the value is fetched,
\* filtered, written back to a struct source and kept in filteredData.  On an
\* error, field is the field that failed.
RECURSIVE ApplyFrom(_, _, _)
ApplyFrom(v, rule, i) ==
    IF i > Len(rule.fields) THEN [v |-> v, err |-> NilErr, field |-> <<>>]
    ELSE LET field == rule.fields[i]
             got == GetWithDefault(v, field)
         IN  IF ~got.exist THEN ApplyFrom(v, rule, i + 1)
             ELSE LET f == applyFilters(got.val, rule.filter)
                  IN  IF ~f.err.nil THEN [v |-> v, err |-> f.err, field |-> field]
                      ELSE LET u == updateValue(v, field, f.val)
                           IN  IF ~u.err.nil
                               THEN [v |-> u.v, err |-> u.err, field |-> field]
                               ELSE ApplyFrom(
                                      [u.v EXCEPT !.filteredData = Put(@, field, u.val)],
                                      rule, i + 1)

Apply(v, rule) == ApplyFrom(v, rule, 1)

\* a loop that stops at an error only when StopOnError is set
RECURSIVE FilterFromUntilStop(_, _, _)
FilterFromUntilStop(v, i, log) ==
    IF i > Len(v.filterRules) THEN [v |-> v, log |-> log]
    ELSE LET rule == v.filterRules[i]
             a == Apply(v, rule)
             entry == [rule |-> i, failed |-> ~a.err.nil, field |-> a.field]
             w == AddError(a.v, filterError, filterError,
                           rule.fields[1] \o <<":", " ">> \o a.err.msg)
         IN  IF ~a.err.nil
             THEN IF shouldStop(w) THEN [v |-> w, log |-> Append(log, entry)]
                  ELSE FilterFromUntilStop(w, i + 1, Append(log, entry))
             ELSE FilterFromUntilStop(a.v, i + 1, Append(log, entry))

\* the loop of Filtering from the i-th filter rule on; log lists, in the order
\* of the calls, every rule whose Apply was called, with its outcome
RECURSIVE FilterFrom(_, _, _)
FilterFrom(v, i, log) ==
    IF i > Len(v.filterRules) THEN [v |-> v, log |-> log]
    ELSE LET rule == v.filterRules[i]
             a == Apply(v, rule)
             entry == [rule |-> i, failed |-> ~a.err.nil, field |-> a.field]
         IN  IF ~a.err.nil
             THEN [v |-> AddError(a.v, filterError, filterError,
                                  rule.fields[1] \o <<":", " ">> \o a.err.msg),
                   log |-> Append(log, entry)]
             ELSE FilterFrom(a.v, i + 1, Append(log, entry))

\* a Filtering that does not start once the session has failed and
\* StopOnError is set
FilteringUnlessStopped(v) ==
    IF v.hasFiltered \/ shouldStop(v)
    THEN [v |-> v, ret |-> IsSuccess(v), log |-> <<>>, ran |-> FALSE]
    ELSE LET r == FilterFrom(v, 1, <<>>)
             w == [r.v EXCEPT !.hasFiltered = TRUE]
         IN  [v |-> w, ret |-> IsSuccess(w), log |-> r.log, ran |-> TRUE]

\* a Filtering that does not look at hasFiltered
FilteringAlways(v) ==
    LET r == FilterFrom(v, 1, <<>>)
        w == [r.v EXCEPT !.hasFiltered = TRUE]
    IN  [v |-> w, ret |-> IsSuccess(w), log |-> r.log, ran |-> TRUE]

\* ran tells whether the call went through the loop or returned at once
Filtering(v) ==
    IF v.hasFiltered THEN [v |-> v, ret |-> IsSuccess(v), log |-> <<>>, ran |-> FALSE]
    ELSE LET r == FilterFrom(v, 1, <<>>)
             w == [r.v EXCEPT !.hasFiltered = TRUE]
         IN  [v |-> w, ret |-> IsSuccess(w), log |-> r.log, ran |-> TRUE]

Sanitize(v) == Filtering(v)

-----------------------------------------------------------------------------
(* The scene selector *)

\* the elements of a list, as the keys of the map built from it
Range(a) == {a[i] : i \in 1..Len(a)}

\* a sceneFieldMap that builds the set whatever the scene name is
sceneFieldMapAnyScene(v) ==
    IF Has(v.scenes, v.scene) THEN Range(v.scenes[v.scene]) ELSE {}

\* the keys of the map (every value is 1); the nil map has none
sceneFieldMap(v) ==
    IF v.scene = "" THEN {}
    ELSE IF Has(v.scenes, v.scene) THEN Range(v.scenes[v.scene])
    ELSE {}

\* an isNotNeedToCheck for which an empty set of scene fields lists no field
isNotNeedToCheckEmptySkips(v, field) ==
    LET fields == Split(field)
    IN  IF \E i \in 0..(Len(fields) - 1) : Join(SubSeq(fields, 1, i)) \in v.sceneFields
        THEN FALSE
        ELSE field \notin v.sceneFields

isNotNeedToCheck(v, field) ==
    IF Cardinality(v.sceneFields) = 0 THEN FALSE
    ELSE LET fields == Split(field)
         IN  IF \E i \in 0..(Len(fields) - 1) : Join(SubSeq(fields, 1, i)) \in v.sceneFields
             THEN FALSE
             ELSE field \notin v.sceneFields

-----------------------------------------------------------------------------
(* The validator registry *)

newFuncMeta(name, isInternal, fv) == [name |-> name, isInternal |-> isInternal, fv |-> fv]

\* the nil *funcMeta
NilMeta == [name |-> "", isInternal |-> FALSE, fv |-> NilFunc]

\* checkValidatorFunc accepts a function that returns a bool and panics on
\* anything else
checkValidatorFunc(name, checkFunc) ==
    IF checkFunc = "notAFunc" THEN [fv |-> NilFunc, panic |-> TRUE]
    ELSE [fv |-> Func("func", checkFunc), panic |-> FALSE]

AddValidator(v, name, checkFunc) ==
    LET c == checkValidatorFunc(name, checkFunc)
    IN  IF c.panic THEN [v |-> v, panic |-> TRUE]
        ELSE [v |-> [v EXCEPT !.validators = Put(@, name, validatorTypeCustom),
                              !.validatorMetas = Put(@, name, newFuncMeta(name, FALSE, c.fv))],
              panic |-> FALSE]

\* a validatorMeta that asks the global table before the session's own
validatorMetaGlobalFirst(v, gMetas, name) ==
    IF Has(gMetas, name)
    THEN [v |-> v, fm |-> gMetas[name], panic |-> FALSE, looked |-> FALSE]
    ELSE IF Has(v.validatorMetas, name)
    THEN [v |-> v, fm |-> v.validatorMetas[name], panic |-> FALSE, looked |-> FALSE]
    ELSE IF v.data = NilData
    THEN [v |-> v, fm |-> NilMeta, panic |-> TRUE, looked |-> FALSE]
    ELSE IF v.data.type = sourceStruct /\ FuncValue(v.data, name).ok
    THEN LET fm == newFuncMeta(name, FALSE, FuncValue(v.data, name).fv)
         IN  [v |-> [v EXCEPT !.validators = Put(@, name, validatorTypeCustom),
                              !.validatorMetas = Put(@, name, fm)],
              fm |-> fm, panic |-> FALSE, looked |-> TRUE]
    ELSE [v |-> v, fm |-> NilMeta, panic |-> FALSE,
          looked |-> (v.data.type = sourceStruct)]

\* a validatorMeta that returns the struct's method and stores nothing
validatorMetaNoMemo(v, gMetas, name) ==
    IF Has(v.validatorMetas, name)
    THEN [v |-> v, fm |-> v.validatorMetas[name], panic |-> FALSE, looked |-> FALSE]
    ELSE IF Has(gMetas, name)
    THEN [v |-> v, fm |-> gMetas[name], panic |-> FALSE, looked |-> FALSE]
    ELSE IF v.data = NilData
    THEN [v |-> v, fm |-> NilMeta, panic |-> TRUE, looked |-> FALSE]
    ELSE IF v.data.type = sourceStruct /\ FuncValue(v.data, name).ok
    THEN [v |-> v, fm |-> newFuncMeta(name, FALSE, FuncValue(v.data, name).fv),
          panic |-> FALSE, looked |-> TRUE]
    ELSE [v |-> v, fm |-> NilMeta, panic |-> FALSE,
          looked |-> (v.data.type = sourceStruct)]

\* gMetas is the package-level validatorMetas.  v.data.Type() on the nil
\* DataFace is a call on a nil interface: the call panics.  looked tells
\* whether the call asked the struct for a method (FuncValue).
validatorMeta(v, gMetas, name) ==
    IF Has(v.validatorMetas, name)
    THEN [v |-> v, fm |-> v.validatorMetas[name], panic |-> FALSE, looked |-> FALSE]
    ELSE IF Has(gMetas, name)
    THEN [v |-> v, fm |-> gMetas[name], panic |-> FALSE, looked |-> FALSE]
    ELSE IF v.data = NilData
    THEN [v |-> v, fm |-> NilMeta, panic |-> TRUE, looked |-> FALSE]
    ELSE IF v.data.type = sourceStruct /\ FuncValue(v.data, name).ok
    THEN LET fm == newFuncMeta(name, FALSE, FuncValue(v.data, name).fv)
         IN  [v |-> [v EXCEPT !.validators = Put(@, name, validatorTypeCustom),
                              !.validatorMetas = Put(@, name, fm)],
              fm |-> fm, panic |-> FALSE, looked |-> TRUE]
    ELSE [v |-> v, fm |-> NilMeta, panic |-> FALSE,
          looked |-> (v.data.type = sourceStruct)]

\* the package-level AddValidator: the entry goes into the global tables
AddGlobalValidator(gValidators, gMetas, name, checkFunc) ==
    LET c == checkValidatorFunc(name, checkFunc)
    IN  IF c.panic
        THEN [validators |-> gValidators, validatorMetas |-> gMetas, panic |-> TRUE]
        ELSE [validators |-> Put(gValidators, name, validatorTypeCustom),
              validatorMetas |-> Put(gMetas, name, newFuncMeta(name, FALSE, c.fv)),
              panic |-> FALSE]

-----------------------------------------------------------------------------
(* The HTTP request of the JSON input adapter (src/unnamed/part_000) *)

(* A body is a sequence of lexemes, one character each:                     *)
(*   "{" and "}"  the braces of an object                                  *)
(*   "k"  a member the destination has, with a value of the field's type   *)
(*   "t"  a member the destination has, with a value of another type      *)
(*   "u"  a member the destination has no field for                        *)
(*   "e"  a member whose value's UnmarshalJSON returns an error of its own *)
(*   "!"  a byte that no JSON text holds                                   *)
(* The destination v is a pointer to a struct.                             *)

MaxBody == 3       \* lexemes of a request body or of the data argument

\* the limit of the http.MaxBytesReader a server wraps the body in
BodyLimit == 1

StatusOK == 200

StatusBadRequest == 400

StatusRequestEntityTooLarge == 413

StatusUnsupportedMediaType == 415

StatusInternalServerError == 500

Members == {"k", "t", "u", "e"}

\* r.Body: the bytes, how many of them have been read, and the kind of
\* reader: "plain", "broken" (every Read fails) or "maxBytes"
NewReader(b, kind) == [bytes |-> b, pos |-> 0, kind |-> kind]

\* bytes.NewBuffer(b) in a NopCloser
NewBuffer(b) == NewReader(b, "plain")

\* what the reader has not handed out yet
Unread(rd) == SubSeq(rd.bytes, rd.pos + 1, Len(rd.bytes))

TooLarge == <<"http: request body too large">>

\* ioutil.ReadAll: the bytes read, the error and the reader as it is left
ReadAll(rd) ==
    IF rd.kind = "broken"
    THEN [bytes |-> <<>>, err |-> Err(<<"connection reset">>), rd |-> rd]
    ELSE IF rd.kind = "maxBytes" /\ Len(Unread(rd)) > BodyLimit
    THEN [bytes |-> SubSeq(Unread(rd), 1, BodyLimit), err |-> Err(TooLarge),
          rd |-> [rd EXCEPT !.pos = @ + BodyLimit]]
    ELSE [bytes |-> Unread(rd), err |-> NilErr,
          rd |-> [rd EXCEPT !.pos = Len(rd.bytes)]]

\* the caller has no request
NoRequest == [nil |-> TRUE, body |-> NewBuffer(<<>>), header |-> <<>>]

\* the nil []byte, which is not the empty one
NilBytes == [nil |-> TRUE, bytes |-> <<>>]

Bytes(b) == [nil |-> FALSE, bytes |-> b]

\* an error of the decoder: its type, as errors.As and errors.Is see it, and
\* its text
DecErr(type, text) == [nil |-> FALSE, type |-> type, text |-> text]

NoDecErr == [nil |-> TRUE, type |-> "", text |-> ""]

\* the scanner inside an object, at the i-th lexeme: the object ends at a
\* "}", a lexeme that is no member is a syntax error, and the input may end
\* before the object does
RECURSIVE ScanObject(_, _)
ScanObject(b, i) ==
    IF i > Len(b) THEN [kind |-> "eof", at |-> i]
    ELSE IF b[i] = "}" THEN [kind |-> "end", at |-> i]
    ELSE IF b[i] \in Members THEN ScanObject(b, i + 1)
    ELSE [kind |-> "syntax", at |-> i]

\* json.Decoder.Decode(&v): the next value is scanned whole, then stored.
\* end is the index of the value's last lexeme.  A member at the top level
\* starts with a string, which is a value of its own and no struct.  An
\* unknown field is skipped (DisallowUnknownFields is not called); a type
\* mismatch is kept and decoding goes on; an error of an UnmarshalJSON ends
\* the decoding.
Decode(b) ==
    IF b = <<>> THEN [err |-> DecErr("io.EOF", "EOF"), end |-> 0]
    ELSE IF b[1] \in Members
    THEN [err |-> DecErr("UnmarshalTypeError", "json: cannot unmarshal string"),
          end |-> 0]
    ELSE IF b[1] # "{"
    THEN [err |-> DecErr("SyntaxError", "invalid character"), end |-> 0]
    ELSE LET sc == ScanObject(b, 2)
             members == {b[i] : i \in 2..(sc.at - 1)}
         IN  IF sc.kind = "eof"
             THEN [err |-> DecErr("io.ErrUnexpectedEOF", "unexpected EOF"), end |-> 0]
             ELSE IF sc.kind = "syntax"
             THEN [err |-> DecErr("SyntaxError", "invalid character"), end |-> 0]
             ELSE IF "e" \in members
             THEN [err |-> DecErr("errorString", "bad value"), end |-> sc.at]
             ELSE IF "t" \in members
             THEN [err |-> DecErr("UnmarshalTypeError", "json: cannot unmarshal"),
                   end |-> sc.at]
             ELSE [err |-> NoDecErr, end |-> sc.at]

\* json.Decoder.More: there is a next lexeme and it closes nothing
More(b, end) == end < Len(b) /\ b[end + 1] # "}"

\* mime.ParseMediaType on one entry of the header
ParseMediaType(entry) ==
    CASE entry = "application/json" -> [t |-> "application/json", err |-> FALSE]
      [] entry = "application/json; charset=utf-8" ->
            [t |-> "application/json", err |-> FALSE]
      [] entry = "text/plain" -> [t |-> "text/plain", err |-> FALSE]
      [] OTHER -> [t |-> "", err |-> TRUE]

\* the loop of HasContentType over the entries between the commas
RECURSIVE HasContentTypeFrom(_, _, _)
HasContentTypeFrom(entries, i, mimetype) ==
    IF i > Len(entries) THEN FALSE
    ELSE LET m == ParseMediaType(entries[i])
         IN  IF m.err THEN FALSE
             ELSE IF m.t = mimetype THEN TRUE
             ELSE HasContentTypeFrom(entries, i + 1, mimetype)

\* the header is the list of the entries between its commas; the empty list
\* is the header that is not set
HasContentType(r, mimetype) ==
    IF r.header = <<>> THEN mimetype = "application/octet-stream"
    ELSE HasContentTypeFrom(r.header, 1, mimetype)

\* the switch on the error of Decode, in the order of its cases, and the
\* test for a further value
DecodeStatus(b) ==
    LET d == Decode(b)
        bad(msg) == [status |-> StatusBadRequest, err |-> Err(<<msg>>)]
    IN  IF ~d.err.nil
        THEN IF d.err.type = "SyntaxError" THEN bad("malformed json at position")
             ELSE IF d.err.type = "io.ErrUnexpectedEOF" THEN bad("malformed json")
             ELSE IF d.err.type = "UnmarshalTypeError" THEN bad("invalid value")
             ELSE IF d.err.text = "json: unknown field" THEN bad("unknown field")
             ELSE IF d.err.type = "io.EOF" THEN bad("body must not be empty")
             ELSE IF d.err.text = TooLarge[1]
             THEN [status |-> StatusRequestEntityTooLarge, err |-> Err(TooLarge)]
             ELSE [status |-> StatusInternalServerError,
                   err |-> Err(<<"failed to decode json">>)]
        ELSE IF More(b, d.end) THEN bad("body must contain only one JSON object")
        ELSE [status |-> StatusOK, err |-> NilErr]

\* an Unmarshal that leaves r.Body as ReadAll left it
UnmarshalNoRestore(r, data) ==
    IF r.nil /\ data.nil
    THEN [status |-> StatusUnsupportedMediaType, err |-> Err(<<"no data provided">>),
          r |-> r, read |-> <<>>]
    ELSE IF ~r.nil /\ ~data.nil
    THEN [status |-> StatusUnsupportedMediaType,
          err |-> Err(<<"multiple data provided">>), r |-> r, read |-> <<>>]
    ELSE IF ~r.nil
    THEN LET a == ReadAll(r.body)
             r2 == [r EXCEPT !.body = a.rd]
         IN  IF ~a.err.nil
             THEN [status |-> StatusBadRequest,
                   err |-> Err(<<"error reading request body">>),
                   r |-> r2, read |-> a.bytes]
             ELSE IF ~HasContentType(r2, "application/json")
             THEN [status |-> StatusUnsupportedMediaType,
                   err |-> Err(<<"content-type is not application/json">>),
                   r |-> r2, read |-> a.bytes]
             ELSE [status |-> DecodeStatus(a.bytes).status,
                   err |-> DecodeStatus(a.bytes).err, r |-> r2, read |-> a.bytes]
    ELSE [status |-> DecodeStatus(data.bytes).status,
          err |-> DecodeStatus(data.bytes).err, r |-> r, read |-> <<>>]

\* read is what the call read from r.Body
Unmarshal(r, data) ==
    IF r.nil /\ data.nil
    THEN [status |-> StatusUnsupportedMediaType, err |-> Err(<<"no data provided">>),
          r |-> r, read |-> <<>>]
    ELSE IF ~r.nil /\ ~data.nil
    THEN [status |-> StatusUnsupportedMediaType,
          err |-> Err(<<"multiple data provided">>), r |-> r, read |-> <<>>]
    ELSE IF ~r.nil
    THEN LET a == ReadAll(r.body)
             r2 == [r EXCEPT !.body = NewBuffer(a.bytes)]
         IN  IF ~a.err.nil
             THEN [status |-> StatusBadRequest,
                   err |-> Err(<<"error reading request body">>),
                   r |-> [r EXCEPT !.body = a.rd], read |-> a.bytes]
             ELSE IF ~HasContentType(r2, "application/json")
             THEN [status |-> StatusUnsupportedMediaType,
                   err |-> Err(<<"content-type is not application/json">>),
                   r |-> r2, read |-> a.bytes]
             ELSE [status |-> DecodeStatus(a.bytes).status,
                   err |-> DecodeStatus(a.bytes).err, r |-> r2, read |-> a.bytes]
    ELSE [status |-> DecodeStatus(data.bytes).status,
          err |-> DecodeStatus(data.bytes).err, r |-> r, read |-> <<>>]

-----------------------------------------------------------------------------
(* The inputs the specifications draw from *)

Sessions == {"v", "w"}

KA == <<"a">>

KB == <<"b">>

Keys == {KA, KB}

\* the raw values of a data source: the zero value and an untrimmed number
DataVals == {"", " 1"}

Maps(keys, vals) == UNION {[d -> vals] : d \in SUBSET keys}

DataSources ==
    {[type |-> t, vals |-> m, methods |-> {}] :
        t \in {"struct", "map"}, m \in Maps(Keys, DataVals)}

FilterRules ==
    {[fields |-> <<KA>>, filter |-> "trim"],
     [fields |-> <<KA, KB>>, filter |-> "trim"],
     [fields |-> <<KA, KB>>, filter |-> "int"]}

ValidateRules == [fields : {<<KA>>}, validator : {"required"}]

\* what a call leaves in `last` when it returns nothing of interest
\* the call before a Filtering call, as far as the claims tell calls apart
Prev == IF last.op \in {"Filtering", "ResetResult", "Reset"} THEN last.op ELSE "other"

\* `last` before any call: op is the call, sid, name, fn, key and arg its
\* arguments, and the other fields what it returned (ret, fm, val, exist,
\* isDefault, err, status), whether it panicked, and what a Filtering call did
NoCall ==
    [op |-> "New", prev |-> "", sid |-> "", name |-> "", fn |-> "", key |-> <<>>,
     ret |-> TRUE, panic |-> FALSE, fm |-> NilMeta, val |-> Nil, exist |-> FALSE,
     isDefault |-> FALSE, log |-> <<>>, ran |-> FALSE, added |-> 0,
     arg |-> Nil, err |-> NilErr, again |-> FALSE, status |-> 0, body |-> <<>>,
     data |-> NilBytes, looked |-> FALSE]

Called(name) == [NoCall EXCEPT !.op = name]

\* what a Filtering call that returned r leaves in `last`: what it returned,
\* the rules it applied and the number of AddError calls it made; again
\* tells that the call follows a ResetResult() that followed a Filtering()
\* that had returned false
Filtered(r) ==
    [Called("Filtering") EXCEPT !.prev = Prev, !.ret = r.ret, !.log = r.log,
                                !.ran = r.ran,
                                !.again = (last.op = "ResetResult" /\ last.again),
                                !.added = r.v.addCalls - sess["v"].addCalls]

-----------------------------------------------------------------------------
(* SpecRun: one session "v", its filter rules, the filtering phase, the    *)
(* error sink and the two resets                                           *)

InitRun ==
    /\ \E d \in DataSources \cup {NilData}, b \in BOOLEAN :
          sess = [s \in {"v"} |-> [NewValidation(d, <<>>) EXCEPT !.StopOnError = b]]
    /\ globalValidators = EmptyMap
    /\ globalValidatorMetas = EmptyMap
    /\ last = NoCall
    /\ req = NoRequest

\* the rule registration API appends a filter rule; rules are registered
\* before the phases run, or again after a reset
CallAddFilterRule ==
    \E r \in FilterRules :
        /\ ~sess["v"].hasFiltered
        /\ Len(sess["v"].filterRules) < MaxRules
        /\ sess' = [sess EXCEPT !["v"].filterRules = Append(@, r)]
        /\ last' = Called("AddFilterRule")
        /\ UNCHANGED <<globalValidators, globalValidatorMetas, req>>

\* the rule registration API appends a validation rule
CallAddRule ==
    \E r \in ValidateRules :
        /\ ~sess["v"].hasFiltered
        /\ Len(sess["v"].rules) < MaxValRules
        /\ sess' = [sess EXCEPT !["v"].rules = Append(@, r)]
        /\ last' = Called("AddRule")
        /\ UNCHANGED <<globalValidators, globalValidatorMetas, req>>

CallFiltering ==
    LET r == Filtering(sess["v"])
    IN  /\ sess' = [sess EXCEPT !["v"] = r.v]
        /\ last' = Filtered(r)
        /\ UNCHANGED <<globalValidators, globalValidatorMetas, req>>

CallSanitize ==
    LET r == Sanitize(sess["v"])
    IN  /\ sess' = [sess EXCEPT !["v"] = r.v]
        /\ last' = Filtered(r)
        /\ UNCHANGED <<globalValidators, globalValidatorMetas, req>>

CallAddError ==
    \E field \in {KA, filterError} :
        /\ sess["v"].addCalls < MaxErrs
        /\ sess' = [sess EXCEPT !["v"] = AddError(@, field, filterError, <<"m">>)]
        /\ last' = Called("AddError")
        /\ UNCHANGED <<globalValidators, globalValidatorMetas, req>>

CallAddErrorf ==
    /\ sess["v"].addCalls < MaxErrs
    /\ sess' = [sess EXCEPT !["v"] = AddErrorf(@, KB, <<"n", "o", " ", "%", "s">>, <<KB>>)]
    /\ last' = Called("AddErrorf")
    /\ UNCHANGED <<globalValidators, globalValidatorMetas, req>>

CallWithError ==
    \E err \in {NilErr, Err(<<"e">>)} :
        /\ sess["v"].addCalls < MaxErrs
        /\ sess' = [sess EXCEPT !["v"] = WithError(@, err)]
        /\ last' = Called("WithError")
        /\ UNCHANGED <<globalValidators, globalValidatorMetas, req>>

\* the caller's count of AddError calls starts again at a reset
CallResetResult ==
    /\ sess' = [sess EXCEPT !["v"] = [ResetResult(@) EXCEPT !.addCalls = 0]]
    /\ last' = [Called("ResetResult") EXCEPT
                    !.again = (last.op = "Filtering" /\ ~last.ret)]
    /\ UNCHANGED <<globalValidators, globalValidatorMetas, req>>

CallReset ==
    /\ sess' = [sess EXCEPT !["v"] = [Reset(@) EXCEPT !.addCalls = 0]]
    /\ last' = Called("Reset")
    /\ UNCHANGED <<globalValidators, globalValidatorMetas, req>>

NextRun ==
    \/ CallAddFilterRule
    \/ CallAddRule
    \/ CallFiltering
    \/ CallSanitize
    \/ CallAddError
    \/ CallAddErrorf
    \/ CallWithError
    \/ CallResetResult
    \/ CallReset

SpecRun == InitRun /\ [][NextRun]_vars

-----------------------------------------------------------------------------
(* Claims checked under SpecRun *)

V == sess["v"]

\* the last call was a Filtering call that went through the loop
FilterRan == last.op = "Filtering" /\ last.ran

\* that run ended with a failing rule
FilterFailed == FilterRan /\ last.log # <<>> /\ last.log[Len(last.log)].failed

\* C1: in one Filtering() run the filter rules are applied in insertion order
\* (the k-th Apply call is on the k-th rule); no rule is applied after the
\* first one whose Apply returns an error; the run makes exactly one AddError
\* call for that error, which leaves the entry (_filter, _filter); a run with
\* no failing rule applies every rule and adds no error.  StopOnError is not
\* part of the statement: it holds for both values.
C1_FilteringStopsAtFirstError ==
    FilterRan =>
        LET n == Len(last.log)
        IN  /\ n <= Len(V.filterRules)
            /\ \A i \in 1..n : last.log[i].rule = i
            /\ \A i \in 1..(n - 1) : ~last.log[i].failed
            /\ n < Len(V.filterRules) => FilterFailed
            /\ last.added = (IF FilterFailed THEN 1 ELSE 0)
            /\ FilterFailed =>
                 <<FieldName(V.trans, filterError), filterError>> \in ErrorKeys(V.Errors)

\* a run with StopOnError off stopped at its first rule and left a later rule
\* unapplied
C1_Witness ==
    /\ FilterFailed
    /\ ~V.StopOnError
    /\ Len(last.log) = 1
    /\ Len(V.filterRules) >= 2

\* C2: a Filtering() (or Sanitize()) call that directly follows another one
\* applies no filter rule, leaves Errors, filteredData and the data source as
\* they were and returns what the first call returned.
C2_SecondFilteringIsNoOp ==
    [][(last'.op = "Filtering" /\ last'.prev = "Filtering") =>
          /\ last'.log = <<>>
          /\ ~last'.ran
          /\ sess'["v"].Errors = V.Errors
          /\ sess'["v"].filteredData = V.filteredData
          /\ sess'["v"].data = V.data
          /\ last'.ret = last.ret]_vars

\* a second call after a first call that failed and had written filtered data
C2_Witness ==
    /\ last.op = "Filtering"
    /\ last.prev = "Filtering"
    /\ ~last.ret
    /\ V.filteredData # EmptyMap
    /\ V.filterRules # <<>>

\* C3, as claimed: Reset() and ResetResult() both leave the lists of
\* validation rules and filter rules as they were.
C3_ResetsKeepRules ==
    [][last'.op \in {"Reset", "ResetResult"} =>
          /\ sess'["v"].rules = V.rules
          /\ sess'["v"].filterRules = V.filterRules]_vars

\* C3, amended: ResetResult() leaves both lists as they were, and the
\* Filtering() that follows it runs and applies the rules of the unchanged
\* list in its order; Reset() empties both lists, and the Filtering() that
\* follows it applies no filter rule.
C3_ResetResultKeepsRules ==
    [][/\ last'.op = "ResetResult" =>
            /\ sess'["v"].rules = V.rules
            /\ sess'["v"].filterRules = V.filterRules
       /\ last'.op = "Reset" =>
            /\ sess'["v"].rules = <<>>
            /\ sess'["v"].filterRules = <<>>
       /\ (last'.op = "Filtering" /\ last'.prev = "ResetResult") =>
            /\ last'.ran
            /\ sess'["v"].filterRules = V.filterRules
            /\ \A i \in 1..Len(last'.log) : last'.log[i].rule = i
            /\ Len(last'.log) >= 1 \/ V.filterRules = <<>>
       /\ (last'.op = "Filtering" /\ last'.prev = "Reset") =>
            /\ last'.ran
            /\ last'.log = <<>>]_vars

\* a Filtering() right after a ResetResult() applied two rules, with a
\* validation rule registered
C3_Witness ==
    /\ last.op = "Filtering"
    /\ last.prev = "ResetResult"
    /\ Len(last.log) = 2
    /\ V.rules # <<>>

\* C4: IsFail() is true exactly when an error entry has been added since the
\* last reset, which is exactly when Errors holds an entry; IsOK() and
\* IsSuccess() are its negation; and a call other than ResetResult()/Reset()
\* neither removes an entry of Errors nor clears the fail flag.
C4_FailIffErrorAdded ==
    /\ [](/\ IsFail(V) <=> V.addCalls > 0
          /\ IsFail(V) <=> ErrorKeys(V.Errors) # {}
          /\ IsOK(V) = ~IsFail(V)
          /\ IsSuccess(V) = ~IsFail(V))
    /\ [][last'.op \notin {"Reset", "ResetResult"} =>
             /\ IsFail(V) => IsFail(sess'["v"])
             /\ ErrorKeys(V.Errors) \subseteq ErrorKeys(sess'["v"].Errors)]_vars

\* the session fails after a Filtering() that added the only error
C4_Witness ==
    /\ FilterFailed
    /\ V.addCalls = 1
    /\ IsFail(V)

\* C10, as claimed: the error a failing Filtering() records is stored under
\* the field whose filtering failed, with the filter error class as its
\* validator, and its message names that field.
C10_FilterErrorScopedToFailedField ==
    FilterFailed =>
        LET field == last.log[Len(last.log)].field
            key == FieldName(V.trans, field)
        IN  /\ Has(V.Errors, key)
            /\ Has(V.Errors[key], filterError)
            /\ SubSeq(V.Errors[key][filterError], 1, Len(field) + 2)
                  = field \o <<":", " ">>

\* C15: the Filtering() that follows a ResetResult() goes through the loop
\* again, from the first filter rule on in insertion order; it returns false
\* exactly when a rule of this run failed, and the Errors it leaves hold the
\* one entry of this run's failure or nothing: no error from before the
\* reset is left.
C15_FilteringRerunsAfterResetResult ==
    [][(last'.op = "Filtering" /\ last'.prev = "ResetResult") =>
          LET n == Len(last'.log)
              failed == n > 0 /\ last'.log[n].failed
          IN  /\ last'.ran
              /\ \A i \in 1..n : last'.log[i].rule = i
              /\ n >= 1 \/ V.filterRules = <<>>
              /\ ~failed => n = Len(V.filterRules)
              /\ last'.ret = ~failed
              /\ last'.added = sess'["v"].addCalls
              /\ ErrorKeys(sess'["v"].Errors) =
                    (IF failed THEN {<<filterError, filterError>>} ELSE {})]_vars

\* a Filtering() had returned false, the result was reset, and the next
\* Filtering() applied a rule, returned true and left no error
C15_Witness ==
    /\ last.op = "Filtering"
    /\ last.prev = "ResetResult"
    /\ last.again
    /\ last.ran
    /\ Len(last.log) >= 1
    /\ last.ret
    /\ V.Errors = EmptyMap

\* C17: Filtering() returns true exactly when the session holds no error
\* when it returns; a call on a session that has not filtered yet goes
\* through the loop whatever errors the session holds, and when no rule of
\* the run fails every filter rule is applied; so a session that failed
\* before the call gets false from it, with all its filter rules applied.
C17_FilteringReturnsNoErrorRecorded ==
    [][last'.op = "Filtering" =>
          /\ last'.ret <=> ~IsFail(sess'["v"])
          /\ last'.ret <=> ErrorKeys(sess'["v"].Errors) = {}
          /\ IsFail(V) => ~last'.ret
          /\ ~V.hasFiltered =>
                /\ last'.ran
                /\ last'.added = 0 =>
                      /\ Len(last'.log) = Len(V.filterRules)
                      /\ \A i \in 1..Len(last'.log) :
                            last'.log[i].rule = i /\ ~last'.log[i].failed]_vars

\* the caller had added an error, StopOnError is set, and the Filtering()
\* after it applied both rules without a failure and returned false
C17_Witness ==
    /\ FilterRan
    /\ V.StopOnError
    /\ V.addCalls = 1
    /\ last.added = 0
    /\ Len(last.log) = 2
    /\ ~FilterFailed
    /\ ~last.ret

-----------------------------------------------------------------------------
(* SpecReg: two sessions "v" and "w" and the package-level registry, which *)
(* holds the built-in "email"; a struct source may have methods            *)

Names == {"email", "isOK"}

\* the callables handed to AddValidator; "notAFunc" is not a function
CheckFuncs == {"f", "notAFunc"}

StructSources ==
    {[type |-> sourceStruct, vals |-> EmptyMap, methods |-> ms] : ms \in SUBSET Names}

MapSource == [type |-> "map", vals |-> EmptyMap, methods |-> {}]

builtinEmail == newFuncMeta("email", TRUE, Func("func", "IsEmail"))

InitReg ==
    /\ \E dv \in StructSources \cup {MapSource, NilData}, dw \in {MapSource, NilData} :
          sess = [s \in Sessions |->
                    IF s = "v" THEN NewValidation(dv, <<>>) ELSE NewValidation(dw, <<>>)]
    /\ globalValidators = Put(EmptyMap, "email", validatorTypeBuiltin)
    /\ globalValidatorMetas = Put(EmptyMap, "email", builtinEmail)
    /\ last = NoCall
    /\ req = NoRequest

\* a panic unwinds the call: nothing is returned and the session is as the
\* code left it
CallAddValidator ==
    \E s \in Sessions, name \in Names, f \in CheckFuncs :
        LET r == AddValidator(sess[s], name, f)
        IN  /\ sess' = [sess EXCEPT ![s] = r.v]
            /\ last' = [Called("AddValidator") EXCEPT
                            !.sid = s, !.name = name, !.fn = f, !.panic = r.panic]
            /\ UNCHANGED <<globalValidators, globalValidatorMetas, req>>

CallValidatorMeta ==
    \E s \in Sessions, name \in Names :
        LET r == validatorMeta(sess[s], globalValidatorMetas, name)
        IN  /\ sess' = [sess EXCEPT ![s] = r.v]
            /\ last' = [Called("validatorMeta") EXCEPT
                            !.sid = s, !.name = name, !.fm = r.fm, !.panic = r.panic,
                            !.looked = r.looked]
            /\ UNCHANGED <<globalValidators, globalValidatorMetas, req>>

\* a library registers a validator for the whole process
CallAddGlobalValidator ==
    \E name \in Names, f \in {"g"} :
        LET r == AddGlobalValidator(globalValidators, globalValidatorMetas, name, f)
        IN  /\ globalValidators' = r.validators
            /\ globalValidatorMetas' = r.validatorMetas
            /\ last' = [Called("AddGlobalValidator") EXCEPT
                            !.name = name, !.fn = f, !.panic = r.panic]
            /\ UNCHANGED <<sess, req>>

\* CallResetResult and CallReset reset the session "v"
NextReg ==
    \/ CallAddValidator
    \/ CallValidatorMeta
    \/ CallAddGlobalValidator
    \/ CallResetResult
    \/ CallReset

SpecReg == InitReg /\ [][NextReg]_vars

-----------------------------------------------------------------------------
(* Claims checked under SpecReg *)

\* the three places a name is looked up in, as they are before the call
InSession(s, name) == Has(sess[s].validatorMetas, name)

InGlobal(name) == Has(globalValidatorMetas, name)

IsMethod(s, name) == sess[s].data.type = sourceStruct /\ name \in sess[s].data.methods

\* what the claimed order returns for session s and name, before the call
Resolved(s, name) ==
    IF InSession(s, name) THEN sess[s].validatorMetas[name]
    ELSE IF InGlobal(name) THEN globalValidatorMetas[name]
    ELSE IF IsMethod(s, name) THEN newFuncMeta(name, FALSE, Func("method", name))
    ELSE NilMeta

\* C5, as claimed: validatorMeta(name) returns the session's own entry; else
\* the global entry; else, on a struct-backed source, the struct's method of
\* that name; and nil (not found), returned normally, when none has the name.
C5_ResolutionOrder ==
    [][last'.op = "validatorMeta" =>
          /\ ~last'.panic
          /\ last'.fm = Resolved(last'.sid, last'.name)]_vars

\* C5 on the sessions that have a data source: there the order is as claimed.
C5_ResolutionOrderWithData ==
    [][(last'.op = "validatorMeta" /\ sess[last'.sid].data # NilData) =>
          /\ ~last'.panic
          /\ last'.fm = Resolved(last'.sid, last'.name)]_vars

\* C6: a successful AddValidator(name, f) on session s, for a name the global
\* registry holds, leaves the global registry and every other session as they
\* were; afterwards s resolves name to f, tagged custom, and a session that
\* has no entry of its own for name still resolves it to the global entry,
\* which is the built-in unless the process has registered its own.
C6_AddValidatorShadowsLocally ==
    [][(/\ last'.op = "AddValidator"
        /\ ~last'.panic
        /\ InGlobal(last'.name)) =>
          LET s == last'.sid
              name == last'.name
              mine == validatorMeta(sess'[s], globalValidatorMetas', name)
          IN  /\ globalValidatorMetas' = globalValidatorMetas
              /\ globalValidators' = globalValidators
              /\ \A t \in Sessions \ {s} : sess'[t] = sess[t]
              /\ ~mine.panic
              /\ mine.fm = newFuncMeta(name, FALSE, Func("func", last'.fn))
              /\ ~mine.fm.isInternal
              /\ sess'[s].validators[name] = validatorTypeCustom
              /\ \A t \in Sessions \ {s} :
                    ~InSession(t, name) =>
                        LET theirs == validatorMeta(sess'[t], globalValidatorMetas', name)
                        IN  /\ ~theirs.panic
                            /\ theirs.fm = globalValidatorMetas[name]
                            /\ globalValidatorMetas[name] = builtinEmail =>
                                  theirs.fm.isInternal]_vars

\* "v" has registered its own "email", "w" has none and the global entry is
\* the built-in
C6_Witness ==
    /\ globalValidatorMetas["email"] = builtinEmail
    /\ last.op = "AddValidator"
    /\ last.sid = "v"
    /\ last.name = "email"
    /\ last.fn = "f"
    /\ ~last.panic
    /\ Has(sess["v"].validatorMetas, "email")
    /\ ~Has(sess["w"].validatorMetas, "email")

\* the names session s holds an entry for that came from a method of its struct
Memoized(s) ==
    {n \in DOMAIN sess[s].validatorMetas : sess[s].validatorMetas[n].fv.kind = "method"}

\* C14: a validatorMeta(name) call that finds name only as a method of the
\* struct stores what it returns in the session's validatorMetas, tags name
\* as custom in the session's validators and leaves the global tables as they
\* were; from then on, no ResetResult(), Reset() or global registration
\* removes or changes the stored entry, and a validatorMeta(name) call on the
\* session returns the stored entry without asking the struct for the method
\* again, also when the global table has got the name meanwhile.
C14_MethodMemoized ==
    [][/\ (/\ last'.op = "validatorMeta"
           /\ ~InSession(last'.sid, last'.name)
           /\ ~InGlobal(last'.name)
           /\ IsMethod(last'.sid, last'.name)) =>
             /\ last'.looked
             /\ last'.fm = newFuncMeta(last'.name, FALSE, Func("method", last'.name))
             /\ Has(sess'[last'.sid].validatorMetas, last'.name)
             /\ sess'[last'.sid].validatorMetas[last'.name] = last'.fm
             /\ sess'[last'.sid].validators[last'.name] = validatorTypeCustom
             /\ globalValidators' = globalValidators
             /\ globalValidatorMetas' = globalValidatorMetas
       /\ \A s \in Sessions : \A n \in Memoized(s) :
             /\ last'.op \in {"ResetResult", "Reset", "AddGlobalValidator", "validatorMeta"} =>
                   /\ Has(sess'[s].validatorMetas, n)
                   /\ sess'[s].validatorMetas[n] = sess[s].validatorMetas[n]
                   /\ sess'[s].validators[n] = validatorTypeCustom
             /\ (last'.op = "validatorMeta" /\ last'.sid = s /\ last'.name = n) =>
                   /\ last'.fm = sess[s].validatorMetas[n]
                   /\ ~last'.looked
                   /\ ~last'.panic
                   /\ sess' = sess]_vars

\* "isOK" is resolved from the session's stored method entry while the
\* global table holds a validator of that name
C14_Witness ==
    /\ last.op = "validatorMeta"
    /\ last.sid = "v"
    /\ last.name = "isOK"
    /\ last.fm.fv.kind = "method"
    /\ ~last.looked
    /\ InGlobal("isOK")
    /\ "isOK" \in Memoized("v")

\* C19, as claimed: on a session without a data source, validatorMeta(name)
\* for a name that neither the session's table nor the global table holds
\* returns normally and returns nil (not found).
C19_NotFoundWithoutDataSource ==
    [][(/\ last'.op = "validatorMeta"
        /\ sess[last'.sid].data = NilData
        /\ ~InSession(last'.sid, last'.name)
        /\ ~InGlobal(last'.name)) =>
          (~last'.panic /\ last'.fm = NilMeta)]_vars

\* the call on such a session panicked
C19_Panicked ==
    /\ last.op = "validatorMeta"
    /\ last.sid = "v"
    /\ last.name = "isOK"
    /\ sess["v"].data = NilData
    /\ ~Has(sess["v"].validatorMetas, "isOK")
    /\ ~InGlobal("isOK")
    /\ last.panic

-----------------------------------------------------------------------------
(* SpecScene: one session with a scenes configuration; the scene is set,   *)
(* and the validation phase builds sceneFields and asks isNotNeedToCheck   *)
(* about a field                                                           *)

Alphabet == {"a", "."}

FieldNames == UNION {[1..n -> Alphabet] : n \in 0..MaxLen}

FieldLists == UNION {[1..n -> FieldNames] : n \in 0..MaxSceneFields}

\* a configuration names no scene or one; "" may be a key like any other
SceneConfigs ==
    {EmptyMap} \cup {Put(EmptyMap, n, l) : n \in {"", "s"}, l \in FieldLists}

SceneNames == {"", "s", "t"}

InitScene ==
    /\ \E cfg \in SceneConfigs, sc \in {<<>>, <<"s">>} :
          sess = [s \in {"v"} |->
                    WithScenes(NewValidation(MapSource, sc), cfg)]
    /\ globalValidators = EmptyMap
    /\ globalValidatorMetas = EmptyMap
    /\ last = NoCall
    /\ req = NoRequest

CallAtScene ==
    \E name \in SceneNames :
        /\ sess' = [sess EXCEPT !["v"] = AtScene(@, name)]
        /\ last' = [Called("AtScene") EXCEPT !.name = name]
        /\ UNCHANGED <<globalValidators, globalValidatorMetas, req>>

\* the validation phase builds sceneFields from the scene, then asks for each
\* field of each rule whether the scene leaves the field out
CallIsNotNeedToCheck ==
    \E field \in FieldNames :
        LET w == [sess["v"] EXCEPT !.sceneFields = sceneFieldMap(sess["v"])]
        IN  /\ sess' = [sess EXCEPT !["v"] = w]
            /\ last' = [Called("isNotNeedToCheck") EXCEPT
                            !.key = field, !.ret = isNotNeedToCheck(w, field)]
            /\ UNCHANGED <<globalValidators, globalValidatorMetas, req>>

NextScene ==
    \/ CallAtScene
    \/ CallIsNotNeedToCheck

SpecScene == InitScene /\ [][NextScene]_vars

-----------------------------------------------------------------------------
(* Claims checked under SpecScene *)

\* the proper dotted-path ancestors of a field: what stands before each of
\* its dots
Ancestors(field) ==
    {SubSeq(field, 1, i - 1) : i \in {j \in 1..Len(field) : field[j] = "."}}

\* C7, as claimed: with a non-empty set of scene fields, isNotNeedToCheck
\* returns false exactly when the field or one of its proper dotted-path
\* ancestors is in the set, and true for every other field.
C7_CheckedIffFieldOrAncestorListed ==
    (last.op = "isNotNeedToCheck" /\ V.sceneFields # {}) =>
        (~last.ret <=>
            \/ last.key \in V.sceneFields
            \/ Ancestors(last.key) \cap V.sceneFields # {})

\* C7 where the empty field name is not listed: there the claim holds.
C7_HoldsWithoutEmptyName ==
    (last.op = "isNotNeedToCheck" /\ V.sceneFields # {} /\ <<>> \notin V.sceneFields) =>
        (~last.ret <=>
            \/ last.key \in V.sceneFields
            \/ Ancestors(last.key) \cap V.sceneFields # {})

\* C8: with the empty scene name, sceneFieldMap() builds the empty set and
\* isNotNeedToCheck returns false for the field asked about, whatever the
\* configuration lists, also under the key "".
C8_EmptySceneChecksEveryField ==
    V.scene = "" =>
        /\ sceneFieldMap(V) = {}
        /\ last.op = "isNotNeedToCheck" => (V.sceneFields = {} /\ ~last.ret)

\* a field is asked about under the empty scene while the configuration
\* lists another field under the key ""
C8_Witness ==
    /\ V.scene = ""
    /\ last.op = "isNotNeedToCheck"
    /\ Has(V.scenes, "")
    /\ V.scenes[""] # <<>>
    /\ last.key \notin Range(V.scenes[""])
    /\ ~last.ret

\* C18: with a scene name that is not empty and is no key of the scenes
\* configuration, or is a key with an empty field list, sceneFieldMap()
\* builds the empty set and isNotNeedToCheck returns false for the field
\* asked about, as it does with no scene.
C18_UnknownOrEmptySceneRestrictsNothing ==
    (/\ V.scene # ""
     /\ ~Has(V.scenes, V.scene) \/ V.scenes[V.scene] = <<>>) =>
        /\ sceneFieldMap(V) = {}
        /\ last.op = "isNotNeedToCheck" => (V.sceneFields = {} /\ ~last.ret)

\* a field is asked about under the scene "t", which the configuration does
\* not have, while the configuration lists another field for its own scene
C18_Witness ==
    /\ V.scene = "t"
    /\ Has(V.scenes, "s")
    /\ V.scenes["s"] # <<>>
    /\ last.op = "isNotNeedToCheck"
    /\ last.key \notin Range(V.scenes["s"])
    /\ ~last.ret

-----------------------------------------------------------------------------
(* SpecGet: one session whose source, filtered data and safe data hold any *)
(* values; defaults are registered and values are read                     *)

AllSources ==
    {[type |-> t, vals |-> m, methods |-> {}] :
        t \in {"struct", "map", "form"}, m \in Maps(Keys, DataVals)}

InitGet ==
    /\ \E d \in AllSources \cup {NilData},
          fd \in Maps(Keys, {"", "1"}), sd \in Maps(Keys, {"", "2"}) :
          sess = [s \in {"v"} |->
                    [NewValidation(d, <<>>) EXCEPT !.filteredData = fd, !.safeData = sd]]
    /\ globalValidators = EmptyMap
    /\ globalValidatorMetas = EmptyMap
    /\ last = NoCall
    /\ req = NoRequest

CallSetDefValue ==
    \E field \in Keys :
        /\ sess' = [sess EXCEPT !["v"] = SetDefValue(@, field, "d")]
        /\ last' = [Called("SetDefValue") EXCEPT !.key = field]
        /\ UNCHANGED <<globalValidators, globalValidatorMetas, req>>

CallGetWithDefault ==
    \E key \in Keys :
        LET r == GetWithDefault(sess["v"], key)
        IN  /\ last' = [Called("GetWithDefault") EXCEPT
                            !.key = key, !.val = r.val, !.exist = r.exist,
                            !.isDefault = r.isDefault]
            /\ UNCHANGED <<sess, globalValidators, globalValidatorMetas, req>>

\* the values the caller writes
NewVals == {"x", ""}

\* a field name, and the same name as a wildcard path
UpdateFields == Keys \cup {KA \o <<".", "*">>}

CallSet ==
    \E field \in Keys, val \in NewVals :
        LET r == Set(sess["v"], field, val)
        IN  /\ sess' = [sess EXCEPT !["v"] = r.v]
            /\ last' = [Called("Set") EXCEPT !.key = field, !.arg = val, !.err = r.err]
            /\ UNCHANGED <<globalValidators, globalValidatorMetas, req>>

CallRaw ==
    \E key \in Keys :
        LET r == Raw(sess["v"], key)
        IN  /\ last' = [Called("Raw") EXCEPT !.key = key, !.val = r.val, !.exist = r.exist]
            /\ UNCHANGED <<sess, globalValidators, globalValidatorMetas, req>>

CallGet ==
    \E key \in Keys :
        LET r == Get(sess["v"], key)
        IN  /\ last' = [Called("Get") EXCEPT !.key = key, !.val = r.val, !.exist = r.exist]
            /\ UNCHANGED <<sess, globalValidators, globalValidatorMetas, req>>

CallSafe ==
    \E key \in Keys :
        LET r == Safe(sess["v"], key)
        IN  /\ last' = [Called("Safe") EXCEPT !.key = key, !.val = r.val, !.exist = r.ok]
            /\ UNCHANGED <<sess, globalValidators, globalValidatorMetas, req>>

\* the filtering and validation phases hand a field's new value to updateValue
CallUpdateValue ==
    \E field \in UpdateFields, val \in NewVals :
        LET r == updateValue(sess["v"], field, val)
        IN  /\ sess' = [sess EXCEPT !["v"] = r.v]
            /\ last' = [Called("updateValue") EXCEPT
                            !.key = field, !.arg = val, !.val = r.val, !.err = r.err,
                            !.panic = r.panic]
            /\ UNCHANGED <<globalValidators, globalValidatorMetas, req>>

NextGet ==
    \/ CallSetDefValue
    \/ CallGetWithDefault
    \/ CallSet
    \/ CallRaw
    \/ CallGet
    \/ CallSafe
    \/ CallUpdateValue

SpecGet == InitGet /\ [][NextGet]_vars

-----------------------------------------------------------------------------
(* Claims checked under SpecGet *)

\* C9: on a session with a data source, GetWithDefault(key) returns
\* filteredData[key] if the key is there; else safeData[key] if the key is
\* there; else the source's TryGet value if it exists and is not zero; else
\* the registered default of key, with isDefault set, if there is one; and a
\* value of one of the first three kinds is never replaced by a default.
C9_LookupPrecedence ==
    (last.op = "GetWithDefault" /\ V.data # NilData) =>
        LET key == last.key
            src == DataTryGet(V.data, key)
        IN  IF Has(V.filteredData, key)
            THEN last.val = V.filteredData[key] /\ last.exist /\ ~last.isDefault
            ELSE IF Has(V.safeData, key)
            THEN last.val = V.safeData[key] /\ last.exist /\ ~last.isDefault
            ELSE IF src.exist /\ ~src.zero
            THEN last.val = src.val /\ last.exist /\ ~last.isDefault
            ELSE IF Has(V.defValues, key)
            THEN last.val = V.defValues[key] /\ last.isDefault
            ELSE ~last.isDefault

\* a key held by filteredData, safeData and the source, with a default
\* registered, is read
C9_Witness ==
    /\ last.op = "GetWithDefault"
    /\ V.data # NilData
    /\ Has(V.filteredData, last.key)
    /\ Has(V.safeData, last.key)
    /\ Has(V.data.vals, last.key)
    /\ Has(V.defValues, last.key)
    /\ last.val = "1"

-----------------------------------------------------------------------------
(* SpecJSON: the caller of jsonutil.Unmarshal holds a request or none, and  *)
(* hands the request or a byte slice to Unmarshal; the caller may read      *)
(* r.Body itself                                                            *)

Lexemes == {"{", "}", "!"} \cup Members

Bodies == UNION {[1..n -> Lexemes] : n \in 0..MaxBody}

\* Content-type headers: not set, one entry, and two entries
ContentTypes ==
    {<<>>, <<"application/json">>, <<"application/json; charset=utf-8">>,
     <<"text/plain">>, <<"text/plain", "application/json">>,
     <<";", "application/json">>}

Requests ==
    {[nil |-> FALSE, body |-> NewReader(b, kind), header |-> h] :
        b \in Bodies, kind \in {"plain", "broken", "maxBytes"}, h \in ContentTypes}

InitJSON ==
    /\ sess = EmptyMap
    /\ globalValidators = EmptyMap
    /\ globalValidatorMetas = EmptyMap
    /\ last = NoCall
    /\ req \in Requests \cup {NoRequest}

\* a caller without a request hands in data or nothing; a caller with a
\* request hands in the request, alone or together with data
CallUnmarshal ==
    \E data \in (IF req.nil THEN {Bytes(b) : b \in Bodies} ELSE {Bytes(<<"{", "}">>)})
                    \cup {NilBytes} :
        LET u == Unmarshal(req, data)
        IN  /\ req' = u.r
            /\ last' = [Called("Unmarshal") EXCEPT
                            !.data = data, !.status = u.status, !.err = u.err,
                            !.body = u.read]
            /\ UNCHANGED <<sess, globalValidators, globalValidatorMetas>>

\* the caller reads r.Body to its end
CallReadBody ==
    /\ ~req.nil
    /\ LET a == ReadAll(req.body)
       IN  /\ req' = [req EXCEPT !.body = a.rd]
           /\ last' = [Called("ReadAll") EXCEPT !.body = a.bytes, !.err = a.err]
    /\ UNCHANGED <<sess, globalValidators, globalValidatorMetas>>

NextJSON ==
    \/ CallUnmarshal
    \/ CallReadBody

SpecJSON == InitJSON /\ [][NextJSON]_vars

-----------------------------------------------------------------------------
(* Claims checked under SpecJSON *)

\* the members of the object a text starts with, when it starts with one
FirstObjectMembers(b) ==
    IF b # <<>> /\ b[1] = "{" /\ ScanObject(b, 2).kind = "end"
    THEN {b[i] : i \in 2..(ScanObject(b, 2).at - 1)}
    ELSE {}

\* a header counts as application/json when one of its entries is that media
\* type and no entry before it is malformed
IsApplicationJSON(header) ==
    \E i \in 1..Len(header) :
        /\ ParseMediaType(header[i]).t = "application/json"
        /\ \A j \in 1..(i - 1) : ~ParseMediaType(header[j]).err

Oversized(rd) == rd.kind = "maxBytes" /\ Len(Unread(rd)) > BodyLimit

\* the statuses the claim names for a request r alone or for data alone: one
\* for each of the claim's conditions that the input meets.  The conditions
\* on the text apply to a text that could be read.
ClaimedStatuses(r, data) ==
    LET readable == r.nil \/ (r.body.kind # "broken" /\ ~Oversized(r.body))
        b == IF r.nil THEN data.bytes ELSE Unread(r.body)
        t == Decode(b).err.type
        malformed ==
            \/ t \in {"SyntaxError", "io.ErrUnexpectedEOF", "io.EOF"}
            \/ (b # <<>> /\ b[1] \in Members)
            \/ FirstObjectMembers(b) \cap {"t", "u"} # {}
            \/ (Decode(b).end > 0 /\ More(b, Decode(b).end))
    IN  (IF ~r.nil /\ ~IsApplicationJSON(r.header)
         THEN {StatusUnsupportedMediaType} ELSE {})
        \cup (IF ~r.nil /\ r.body.kind = "broken" THEN {StatusBadRequest} ELSE {})
        \cup (IF ~r.nil /\ Oversized(r.body)
              THEN {StatusRequestEntityTooLarge} ELSE {})
        \cup (IF readable /\ malformed THEN {StatusBadRequest} ELSE {})
        \cup (IF readable /\ "e" \in FirstObjectMembers(b)
              THEN {StatusInternalServerError} ELSE {})

\* the claim about one call: 415 for neither or both inputs; else a status
\* of a condition the input meets, and 200 when it meets none; and the error
\* is nil exactly with 200
AsClaimed(r, data, status, err) ==
    /\ err.nil <=> status = StatusOK
    /\ IF r.nil = data.nil THEN status = StatusUnsupportedMediaType
       ELSE IF ClaimedStatuses(r, data) = {} THEN status = StatusOK
       ELSE status \in ClaimedStatuses(r, data)

\* C12, as claimed: Unmarshal returns 415 when neither or both of r and data
\* are supplied or the content type is not application/json; 400 for a body
\* read failure, a syntax error, an unexpected end of input, a type-mismatched
\* field, an unknown field, an empty body or a trailing extra value; 413 for
\* an oversized body; 500 for any other decode failure; 200 otherwise; and
\* the error is nil exactly when the status is 200.
C12_UnmarshalStatuses ==
    [][last'.op = "Unmarshal" =>
          AsClaimed(req, last'.data, last'.status, last'.err)]_vars

\* C12 on the inputs that have no unknown field in their object and no
\* oversized body: there the statuses are as claimed.
C12_HoldsWithoutUnknownFieldOrOversize ==
    [][(/\ last'.op = "Unmarshal"
        /\ ~(~req.nil /\ Oversized(req.body))
        /\ "u" \notin FirstObjectMembers(
                         IF req.nil THEN last'.data.bytes ELSE Unread(req.body))) =>
          AsClaimed(req, last'.data, last'.status, last'.err)]_vars

\* C16: when Unmarshal(r, nil, v) has read r.Body without a read error, it
\* leaves r.Body a reader from which the caller reads, without an error, all
\* the bytes the call read, whatever the status it returns; when r and data
\* are both supplied it leaves r, its body included, as it was and reads
\* nothing.
C16_BodyRestored ==
    [][(last'.op = "Unmarshal" /\ ~req.nil) =>
          /\ (last'.data.nil /\ ReadAll(req.body).err.nil) =>
                /\ last'.body = Unread(req.body)
                /\ ReadAll(req'.body).bytes = Unread(req.body)
                /\ ReadAll(req'.body).err.nil
          /\ ~last'.data.nil => (req' = req /\ last'.body = <<>>)]_vars

\* a call that read an object and a further value returned 400, and the
\* caller can read both from r.Body again
C16_Witness ==
    /\ last.op = "Unmarshal"
    /\ ~req.nil
    /\ last.data.nil
    /\ last.status = StatusBadRequest
    /\ last.body = <<"{", "}", "{">>
    /\ ReadAll(req.body).bytes = last.body
    /\ ReadAll(req.body).err.nil

-----------------------------------------------------------------------------
(* Claims checked under SpecGet, continued *)

\* C11: updateValue(field, val) on a map-backed or form-backed source returns
\* (val, nil) with val as it was handed in and leaves the session, its data
\* source included, as it was; on a struct-backed source it returns what Set
\* returns for the field name without a trailing ".*", and the source is the
\* one that Set leaves, nothing else of the session being changed.
C11_UpdateValueWritesOnlyStruct ==
    [][last'.op = "updateValue" =>
          /\ V.data.type \in {"map", "form"} =>
                /\ last'.val = last'.arg
                /\ last'.err = NilErr
                /\ ~last'.panic
                /\ sess' = sess
          /\ V.data.type = sourceStruct =>
                LET r == DataSet(V.data, TrimSuffix(last'.key), last'.arg)
                IN  /\ last'.val = r.val
                    /\ last'.err = r.err
                    /\ ~last'.panic
                    /\ sess'["v"] = [V EXCEPT !.data = r.d]]_vars

\* a struct field was written through its wildcard path
C11_Witness ==
    /\ last.op = "updateValue"
    /\ V.data.type = sourceStruct
    /\ last.key = KA \o <<".", "*">>
    /\ last.arg = "x"
    /\ last.err = NilErr
    /\ Has(V.data.vals, KA)
    /\ V.data.vals[KA] = "x"

\* C13: on a session without a data source, Set(field, val) returns
\* ErrEmptyData and leaves the session as it was, and Raw, Get and Safe
\* report the key as not found, with a nil value, also for a key that
\* filteredData or safeData holds.
C13_NoDataSourceNothingFound ==
    [][V.data = NilData =>
          /\ last'.op = "Set" => (last'.err = ErrEmptyData /\ sess' = sess)
          /\ last'.op \in {"Raw", "Get", "Safe"} =>
                (~last'.exist /\ last'.val = Nil /\ sess' = sess)]_vars

\* Get was asked, on a session without a data source, for a key that both
\* filteredData and safeData hold
C13_Witness ==
    /\ last.op = "Get"
    /\ V.data = NilData
    /\ Has(V.filteredData, last.key)
    /\ Has(V.safeData, last.key)
    /\ ~last.exist

====
